---- MODULE Spec2Model ----
(***************************************************************************)
(* Model of rez-release (python/rez/rez_release.py): the release pipeline  *)
(* RezReleaseMode.release with its phases pre_build, build, install and    *)
(* post_install, the central release directory it writes, and the version  *)
(* helpers get_last_tagged_version / validate_version.                     *)
(* Beside it: the scratch directories of build and install, the module     *)
(* level registry of release modes (register_release_mode,                 *)
(* list_available_release_modes) and the git plugin                        *)
(* (rezplugins/release_vcs/git.py: validate_repostate, create_release_tag),*)
(* each with a specification of its own (SpecReg, SpecGit).                *)
(*                                                                         *)
(* Strings are modelled as sequences of tokens.  A tag or version string   *)
(* is a record [k, nums]: k = "num" for a dotted numeric string, "legacy"  *)
(* for the old vA_B_C form, "junk" for text that is no version.            *)
(***************************************************************************)
EXTENDS Integers, Sequences, FiniteSets, TLC

\* ------------------------------------------------------------------ bounds
MaxRuns == 2
MaxVariants == 2
MaxTags == 3

\* --------------------------------------------------------------- variables
VARIABLES
    \* central release directory and working directory (survive a run)
    pkgDir,             \* <root>/<name> exists
    uuidFile,           \* <root>/<name>/package.uuid : [exists, text]
    uuidWrites,         \* number of writes of package.uuid so far
    installed,          \* installed variants: set of [ver, var, uuid]
    timeWrites,         \* version string -> number of writes of release_time.txt
    vcsTags,            \* tags of the mercurial repository, oldest first
    changelog_file,     \* build/rez-release-changelog.txt : [exists, text]
    scratch,            \* directories under build/rez-release: [path, run, var]
    \* the RezReleaseMode object of the current run
    mode,               \* registered mode name the object was built from
    pc,                 \* position of release()
    varnum,             \* loop index of build() / install()
    commit_message,     \* [none, text]
    build_time,
    allow_not_latest,
    metadata,           \* [version, uuid, nvar]
    package_uuid_exists,
    editor,             \* [none] : self.editor is None or the editor command
    last_tagged,        \* [cached, val] : self._last_tagged_version
    \* observations of the current run
    runNo,
    phases,             \* phases started, in order
    err,                \* what ended the run, "" while none
    cmdLog,             \* external build tool invocations, in order
    tagCalls,           \* create_release_tag invocations
    editorCalls,        \* editor invocations
    seen,               \* what the validations of pre_build found
    central0,           \* central release directory when the run started
    firstInstallRun,    \* first run that reached install(), 0 if none
    uuidWriter,         \* run that wrote package.uuid, 0 if none
    suppliedMsg,        \* the commit_message argument of release()
    fnSvn,              \* helpers: the Subversion inputs of the last call
    fnErr,              \* helpers: the error the last Subversion call raised
    gitHistory,         \* git: first-parent history, oldest first; TRUE = merge
    gitLogOut,          \* git: outcome of the last history query
    raceFs,             \* two concurrent runs: the shared central directory
    raceProc,           \* two concurrent runs: each run's position and fields
    postLog,            \* statements of post_install executed, in order
    tagLog,             \* log message of the tag this run created
    tmpf,               \* build/rez-release/rez-release-commit.tmp exists
    njobs,              \* the concurrency hint passed to release()
    emailOut,           \* what send_release_email did in this run
    \* harness for the pure version helpers
    fnPc, fnTags, fnThis, fnAllow, fnLast, fnRaised,
    \* the module-level registry of release modes
    release_classes,    \* _release_classes: list of [name, cls], front first
    regOut,             \* the last registry call: [op, name, raised, modes]
    \* the git plugin (rezplugins/release_vcs/git.py)
    gitRepo,            \* the repository and its working copy
    gitSettings,        \* plugin settings: [allow_no_upstream, releasable]
    gitCmds,            \* git commands issued by the last call, in order
    gitOut              \* the last call: [op, raised, ...]

vars == << pkgDir, uuidFile, uuidWrites, installed, timeWrites, vcsTags,
           changelog_file, scratch, mode, pc, varnum, commit_message, build_time,
           allow_not_latest, metadata, package_uuid_exists, editor,
           last_tagged, runNo, phases, err, cmdLog, tagCalls, editorCalls,
           seen, central0, firstInstallRun, uuidWriter, suppliedMsg,
           postLog, tagLog, tmpf, njobs, emailOut,
           fnPc, fnTags, fnThis, fnAllow, fnLast, fnRaised, fnSvn, fnErr,
           release_classes, regOut, gitRepo, gitSettings, gitCmds, gitOut,
           gitHistory, gitLogOut, raceFs, raceProc >>

runVars == << pkgDir, uuidFile, uuidWrites, installed, timeWrites, vcsTags,
              changelog_file, scratch, mode, pc, varnum, commit_message, build_time,
              allow_not_latest, metadata, package_uuid_exists, editor,
              last_tagged, runNo, phases, err, cmdLog, tagCalls, editorCalls,
              seen, central0, firstInstallRun, uuidWriter, suppliedMsg,
              postLog, tagLog, tmpf, njobs, emailOut >>
centralVars == << pkgDir, uuidFile, uuidWrites, installed, timeWrites >>
fnVars == << fnPc, fnTags, fnThis, fnAllow, fnLast, fnRaised, fnSvn, fnErr >>
regVars == << release_classes, regOut >>
gitVars == << gitRepo, gitSettings, gitCmds, gitOut >>
\* everything release() itself leaves alone
logVars == << gitHistory, gitLogOut >>
raceVars == << raceFs, raceProc >>
sideVars == << fnVars, regVars, gitVars, logVars, raceVars >>

\* ----------------------------------------------------------------- strings
NumStr(ns) == [k |-> "num", nums |-> ns]
LegacyStr(ns) == [k |-> "legacy", nums |-> ns]
JunkStr == [k |-> "junk", nums |-> << >>]

\* tag names a repository may carry
TagStrs == { NumStr(<<0>>), NumStr(<<1>>), NumStr(<<2>>), NumStr(<<1, 1>>),
             LegacyStr(<<1, 0, 0>>), JunkStr }

\* ---------------------------------------------------------------- versions
\* a parsed Version; NoVersion stands for Python's None
NoVersion == [legacy |-> FALSE, nums |-> << >>]
IsNone(v) == v.nums = << >>

\* versions.Version(s): raises on text that is no version
VersionParses(s) == s.k \in {"num", "legacy"} /\ s.nums # << >>
Version(s) == [legacy |-> (s.k = "legacy"), nums |-> s.nums]

\* str(version)[0] == 'v'
StartsWithV(v) == v.legacy

RECURSIVE SeqGT(_, _)
SeqGT(a, b) ==
    IF a = << >> THEN FALSE
    ELSE IF b = << >> THEN TRUE
    ELSE IF Head(a) # Head(b) THEN Head(a) > Head(b)
    ELSE SeqGT(Tail(a), Tail(b))

VersionGT(a, b) == SeqGT(a.nums, b.nums)
VersionLE(a, b) == ~VersionGT(a, b)

\* RezReleaseMode.get_last_tagged_version: the loop over self.get_tags()
NewerThanLatest(ver, latest) == VersionGT(ver, latest)

RECURSIVE TagLoop(_, _, _)
TagLoop(tags, latest_ver, found_tag) ==
    IF tags = << >> THEN [latest_ver |-> latest_ver, found_tag |-> found_tag]
    ELSE IF VersionParses(Head(tags))
                /\ NewerThanLatest(Version(Head(tags)), latest_ver)
         THEN TagLoop(Tail(tags), Version(Head(tags)), TRUE)
         ELSE TagLoop(Tail(tags), latest_ver, found_tag)

get_last_tagged_version(tags) ==
    LET r == TagLoop(tags, Version(NumStr(<<0>>)), FALSE)
    IN  IF ~r.found_tag THEN NoVersion ELSE r.latest_ver

\* ---------------------------------------------------- Subversion helpers
\* the working copy's URL: on trunk, or on /branches/<name>
OnTrunk == JunkStr
SvnBranches == { OnTrunk, NumStr(<<1>>), NumStr(<<2>>) }
SvnInput(exists, branch) == [ tagsUrlExists |-> exists, branch |-> branch ]
NoSvn == SvnInput(FALSE, OnTrunk)

\* the loop body of SvnRezReleaseMode.get_tags: vA_B_C is read as A.B.C
svn_tag_name(tag) == IF tag.k = "legacy" THEN NumStr(tag.nums) ELSE tag
RECURSIVE svn_tag_names(_)
svn_tag_names(entries) ==
    IF entries = << >> THEN << >>
    ELSE << svn_tag_name(Head(entries)) >> \o svn_tag_names(Tail(entries))

\* SvnRezReleaseMode.get_tags: ls is the listing of the tags URL; the name
\* tags is bound to the empty list again before the loop runs over it
svn_get_tags(tagsUrlExists, ls) ==
    IF ~tagsUrlExists THEN [ raised |-> "no_tags_url", tags |-> << >> ]
    ELSE IF Len(ls) = 0 THEN [ raised |-> "no_existing_tags", tags |-> << >> ]
    ELSE LET tags == << >>
         IN  [ raised |-> "", tags |-> svn_tag_names(tags) ]

\* SvnRezReleaseMode.get_last_tagged_version
svn_get_last_tagged_version(tagsUrlExists, ls, branch) ==
    LET latest_ver == IF branch # OnTrunk THEN Version(branch)
                      ELSE Version(NumStr(<<0>>))
        got == svn_get_tags(tagsUrlExists, ls)
        r == TagLoop(got.tags, latest_ver, FALSE)
    IN  IF got.raised # "" THEN [ raised |-> got.raised, val |-> NoVersion ]
        ELSE [ raised |-> "",
               val |-> IF ~r.found_tag THEN NoVersion ELSE r.latest_ver ]

\* RezReleaseMode.validate_version: TRUE when it raises RezReleaseError
NotGreater_strict(this, last) == VersionGT(last, this)
NotGreater(this, last) == VersionLE(this, last)

validate_version_raises(allow, last, this) ==
    IF allow THEN FALSE
    ELSE IF IsNone(last) THEN FALSE
    ELSE IF StartsWithV(last) THEN FALSE
    ELSE NotGreater(this, last)

\* ------------------------------------------------------------ text helpers
\* str.strip() on a sequence of characters, " " being white space
RECURSIVE LStrip(_)
LStrip(s) == IF s # << >> /\ Head(s) = " " THEN LStrip(Tail(s)) ELSE s
RECURSIVE RStrip(_)
RStrip(s) ==
    IF s # << >> /\ s[Len(s)] = " " THEN RStrip(SubSeq(s, 1, Len(s) - 1)) ELSE s
Strip(s) == RStrip(LStrip(s))

NoFile == [exists |-> FALSE, text |-> << >>]
File(t) == [exists |-> TRUE, text |-> t]

\* str(version)
Str(v) == IF v.legacy THEN LegacyStr(v.nums) ELSE NumStr(v.nums)

IsPrefix(a, b) == Len(a) <= Len(b) /\ SubSeq(b, 1, Len(a)) = a

\* ------------------------------------------------------ scratch directories
\* A path string is a sequence of tokens, Sep being the character '/'.
Sep == "/"
\* os.path.join(a, b) for a relative b
PathJoin(a, b) == a \o << Sep >> \o b
\* str(varnum); the implicit variant sets varnum = ''
StrVarnum(variant, n) == IF variant THEN << ToString(n) >> ELSE << >>

\* pre_build: self.base_dir = os.path.join(os.getcwd(), "build", "rez-release")
base_dir == PathJoin(PathJoin(<< "cwd" >>, << "build" >>), << "rez-release" >>)

\* build_variant: subdir
build_subdir(variant, n) ==
    IF variant THEN PathJoin(base_dir, StrVarnum(variant, n))
    ELSE base_dir

\* install_variant: subdir = self.base_dir + '/' + str(varnum) + '/'
install_subdir(variant, n) ==
    base_dir \o << Sep >> \o StrVarnum(variant, n) \o << Sep >>

\* the directory "cd <path>" enters: the components of the path, repeated
\* and trailing separators making no difference
Resolve(path) == SelectSeq(path, LAMBDA c : c # Sep)

\* os.path.exists on the scratch area
Exists(dirs, path) == \E d \in dirs : d.path = Resolve(path)

\* shutil.rmtree(path): the directory and everything below it goes
rmtree_noop(dirs, path) == dirs
rmtree(dirs, path) == { d \in dirs : ~IsPrefix(Resolve(path), d.path) }

\* a directory created at path by run r for variant v (v = -1: by pre_build)
Dir(path, r, v) == [ path |-> Resolve(path), run |-> r, var |-> v ]

\* pre_build, lines 561-570: a fresh, empty base directory
fresh_base_dir(dirs, r) ==
    (IF Exists(dirs, base_dir) THEN rmtree(dirs, base_dir) ELSE dirs)
        \cup { Dir(base_dir, r, -1) }

\* build_variant, lines 625-628: the stale subdir goes, then copy_source
clean_subdir(dirs, subdir) ==
    IF Exists(dirs, subdir) THEN rmtree(dirs, subdir) ELSE dirs
copy_source(dirs, subdir, r, v) == dirs \cup { Dir(subdir, r, v) }


\* ------------------------------------------------------------------ inputs
Uuids == { <<"a">>, <<"b">>, <<"a", " ">> }
MetaVersions == { NumStr(<<1>>), NumStr(<<2>>) }
EmptyStr == [k |-> "empty", nums |-> << >>]

\* package.yaml as read by get_metadata
AMeta == [ yaml |-> TRUE, version |-> NumStr(<<1>>), name |-> TRUE,
           uuid |-> <<"a">>, description |-> TRUE, authors |-> TRUE,
           nvar |-> 0 ]
GoodMeta ==
    { [AMeta EXCEPT !.version = v, !.uuid = u, !.nvar = n] :
          v \in MetaVersions, u \in Uuids, n \in 0 .. MaxVariants }
BadMeta ==
    { [AMeta EXCEPT !.yaml = FALSE], [AMeta EXCEPT !.version = EmptyStr],
      [AMeta EXCEPT !.version = JunkStr], [AMeta EXCEPT !.name = FALSE],
      [AMeta EXCEPT !.uuid = << >>], [AMeta EXCEPT !.description = FALSE],
      [AMeta EXCEPT !.authors = FALSE] }
MetaInputs == GoodMeta \cup BadMeta

Changelogs == { << >>, <<"c">> }
Nows == { 100 }
SuppliedTimes == { 0, 7 }
NoneMessage == [none |-> TRUE, text |-> << >>]
Message(t) == [none |-> FALSE, text |-> t]
SuppliedMessages == { NoneMessage, Message(<<"m">>) }
Modes == { "base", "svn", "hg" }
\* the value is only passed on to the build tool: no statement branches on it
Njobs == { 4 }

\* ------------------------------------------------------- the notification
\* $REZ_RELEASE_EMAIL_TO: unset, or a text of address and separator characters
EmailSeparators == { ":", ";", "," }
EmailTos == { NoneMessage, Message(<< >>), Message(<< ";", " " >>),
             Message(<< "a" >>), Message(<< " ", "a", ",", "b", ":" >>) }
\* smtplib: the connection or the sending may raise
SmtpOutcomes == { "ok", "connect_error", "send_error" }

\* to_.replace(':',' ').replace(';',' ').replace(',',' ')
ReplaceSeparators(t) ==
    [ i \in 1 .. Len(t) |-> IF t[i] \in EmailSeparators THEN " " ELSE t[i] ]
\* str.split(): the non-blank words, a word being a run of characters
RECURSIVE Split(_, _)
Split(t, word) ==
    IF t = << >> THEN (IF word = << >> THEN << >> ELSE << word >>)
    ELSE IF Head(t) = " "
    THEN (IF word = << >> THEN << >> ELSE << word >>) \o Split(Tail(t), << >>)
    ELSE Split(Tail(t), Append(word, Head(t)))

\* "except Exception" around the connection and the sending
except_catches_nothing(smtp) == FALSE
except_catches(smtp) == smtp \in { "connect_error", "send_error" }

Email(outcome, recipients, raised) ==
    [ outcome |-> outcome, recipients |-> recipients, raised |-> raised ]
NoEmail == Email("", << >>, "")

\* send_release_email
send_release_email(to_, smtp) ==
    LET recipients == Split(ReplaceSeparators(to_.text), << >>)
    IN  IF to_.none \/ to_.text = << >> THEN Email("no_to", << >>, "")
        ELSE IF recipients = << >> THEN Email("no_recipients", << >>, "")
        ELSE IF smtp = "ok" THEN Email("sent", recipients, "")
        ELSE IF except_catches(smtp)
        THEN Email("error_printed", recipients, "")
        ELSE Email("error", recipients, "email_failed")

\* the log message a tag carries: msg.none stands for the tool's default text
NoTagLog == [ made |-> FALSE, msg |-> NoneMessage ]
TagLog(msg) == [ made |-> TRUE, msg |-> msg ]

\* the exception class behind an error code
ErrType(e) ==
    CASE e = "" -> ""
      [] e = "no_editor_TypeError" -> "TypeError"
      [] e \in {"no_tag_url_AttributeError", "no_version_AttributeError"}
            -> "AttributeError"
      [] e = "abort" -> "SystemExit"
      [] e = "family_dir_exists" -> "OSError"
      [] OTHER -> "RezReleaseError"

\* the text of the exception behind an error code, as its key phrases
ErrMessage(e) ==
    CASE e = "install_failed" ->
            << "install failed", "partial central installation",
               "should probably be removed" >>
      [] e = "build_failed" -> << "build failed" >>
      [] OTHER -> << e >>

ValidationErrors ==
    { "yaml_not_found", "no_version", "illegal_version", "no_name", "no_uuid",
      "no_description", "no_authors", "not_under_svn", "release_path_unset",
      "uuid_mismatch", "not_clean", "version_not_greater", "tag_exists" }

\* ------------------------------------------------------------ get_metadata
\* the error get_metadata raises on package.yaml m, "" if none; tracked: the
\* file is under svn control (looked at by the Subversion override only)
get_metadata_error(m, tracked) ==
    IF ~m.yaml THEN "yaml_not_found"
    ELSE IF m.version = EmptyStr THEN "no_version"
    ELSE IF ~VersionParses(m.version) THEN "illegal_version"
    ELSE IF ~m.name THEN "no_name"
    ELSE IF m.uuid = << >> THEN "no_uuid"
    ELSE IF ~m.description THEN "no_description"
    ELSE IF ~m.authors THEN "no_authors"
    ELSE IF mode = "svn" /\ ~tracked THEN "not_under_svn"
    ELSE ""

MetaOf(m) == [version |-> m.version, uuid |-> m.uuid, nvar |-> m.nvar]
NoMeta == [version |-> EmptyStr, uuid |-> << >>, nvar |-> 0]

\* -------------------------------------------------------------- check_uuid
check_uuid(file, uuid) ==
    LET existing_uuid == IF file.exists THEN Strip(file.text) ELSE uuid
    IN  [ raises |-> (existing_uuid # uuid), exists |-> file.exists ]

\* ------------------------------------------------- backend hooks, per mode
\* get_tags()
get_tags == IF mode = "hg" THEN vcsTags ELSE << >>

\* validate_repostate(): the error it raises on a working copy, "" if none
validate_repostate_error_none(clean) == ""
validate_repostate_error(clean) ==
    IF mode \in {"hg", "svn"} /\ ~clean THEN "not_clean" ELSE ""

\* get_changelog()
get_changelog(text) == IF mode = "base" THEN << >> ELSE text

\* the last_tagged_version property: the cache after the access
NotCached == [cached |-> FALSE, val |-> NoVersion]
last_tagged_version(cache) ==
    IF cache.cached THEN cache
    ELSE [cached |-> TRUE, val |-> get_last_tagged_version(get_tags)]

\* validate_version(), with the Subversion override: it reads self.version,
\* an attribute no class sets, before it asks whether the tag URL exists
HasVersionAttribute == FALSE
\* SvnRezReleaseMode.validate_version, up to the call of the base method
svn_validate_version(tagUrlExists) ==
    IF ~HasVersionAttribute THEN "no_version_AttributeError"
    ELSE IF tagUrlExists THEN "tag_exists"
    ELSE ""
validate_version_error(cache, this, tagUrlExists) ==
    IF mode = "svn" /\ svn_validate_version(tagUrlExists) # ""
    THEN svn_validate_version(tagUrlExists)
    ELSE IF validate_version_raises(allow_not_latest,
                IF allow_not_latest THEN cache.val
                ELSE last_tagged_version(cache).val, this)
         THEN "version_not_greater" ELSE ""
validate_version_cache(cache) ==
    IF mode = "svn" \/ allow_not_latest THEN cache
    ELSE last_tagged_version(cache)

\* get_tag_meta_str(): base reads self.tag_url, which only the Subversion
\* class sets; Mercurial asks hg, which may fail
get_tag_meta_str_error(hgOk) ==
    IF mode = "base" THEN "no_tag_url_AttributeError"
    ELSE IF mode = "hg" /\ ~hgOk THEN "hg_failed"
    ELSE ""

\* --------------------------------------------- helpers of pre_build's steps
\* _write_changelog: the commit message and the changelog file afterwards
write_changelog_message(msg, changelog) ==
    IF changelog = << >> THEN msg
    ELSE IF msg.text # << >>
         THEN [msg EXCEPT !.text = msg.text \o <<"\n">> \o changelog]
         ELSE [msg EXCEPT !.text = <<"\n", "\n">> \o changelog]
write_changelog_file(file, changelog) ==
    IF changelog = << >> THEN file ELSE File(changelog)

\* _get_commit_message: error code ("" if none), editor invocations, message
get_commit_message(ed, msg, edRc, edChanged, reply) ==
    LET new_commit_message == IF edChanged THEN <<"e">> ELSE msg.text
    IN  IF ed.none
        THEN [err |-> "no_editor_TypeError", calls |-> 0, msg |-> msg]
        ELSE IF edRc # 0
        THEN [err |-> "editor_failed", calls |-> 1, msg |-> msg]
        ELSE IF new_commit_message = msg.text /\ reply # "c"
        THEN [err |-> "abort", calls |-> 1, msg |-> msg]
        ELSE [err |-> "", calls |-> 1,
              msg |-> [msg EXCEPT !.text = new_commit_message]]

\* ------------------------------------------------------- release(): phases
PhaseOrder_swapped == << "pre_build", "install", "build", "post_install" >>
PhaseOrder == << "pre_build", "build", "install", "post_install" >>

\* where control is after phase number i returned
AfterPhase(i) == IF i < Len(PhaseOrder) THEN PhaseOrder[i + 1] ELSE "done"
PhaseIndex(p) == CHOOSE i \in 1 .. Len(PhaseOrder) : PhaseOrder[i] = p

\* first position inside a phase
Entry(p) ==
    CASE p = "pre_build" -> "get_metadata"
      [] p = "post_install" -> "write_time"
      [] OTHER -> p

\* control leaves phase p normally
Return(p) ==
    LET n == AfterPhase(PhaseIndex(p))
    IN  /\ pc' = Entry(n)
        /\ phases' = IF n = "done" THEN phases ELSE Append(phases, n)
        /\ varnum' = 0
        /\ err' = ""

\* an exception leaves release()
Raise(p, code) ==
    /\ pc' = "failed"
    /\ err' = code
    /\ UNCHANGED << phases, varnum >>

\* control moves on inside a phase
Goto(pos) ==
    /\ pc' = pos
    /\ UNCHANGED << phases, varnum, err >>

\* the variants list: an empty list becomes [None]
NVariants_one_more == metadata.nvar + 1
NVariants == IF metadata.nvar = 0 THEN 1 ELSE metadata.nvar

\* build_variant: pret.returncode != 0
BuildFailed_never(rc) == FALSE
BuildFailed(rc) == rc # 0

\* install_variant, line 682: pret.returncode != 0 after the install-path query
QueryFailed_never(rc) == FALSE
QueryFailed(rc) == rc # 0

\* install_variant, line 702: pret.returncode != 0 after the install
ReturnCodeFails_never(rc) == FALSE
ReturnCodeFails(rc) == rc # 0

\* "if variant": the entry of self.variants is a variant, not None
HasVariants == metadata.nvar # 0

\* one invocation of an external tool on variant v, after "cd <path>"
Cmd(op, v, rc, path) ==
    [ op |-> op, v |-> v, rc |-> rc, t |-> build_time,
      c |-> changelog_file.exists, dir |-> Resolve(path) ]

Central == [ pkgDir |-> pkgDir, uuidFile |-> uuidFile,
             installed |-> installed, timeWrites |-> timeWrites ]

NoSeen == [ metaOk |-> TRUE, tracked |-> TRUE, relPath |-> TRUE,
            uuidChecked |-> FALSE, clean |-> TRUE, versionChecked |-> FALSE,
            tagUrlExists |-> FALSE, changelog |-> << >> ]

\* ----------------------------------------------------------------- actions
\* release_from_path: cls(path) and the first lines of release()
NewRun ==
    /\ pc \in {"idle", "done", "failed"}
    /\ runNo < MaxRuns
    /\ \E md \in Modes, cm \in SuppliedMessages, bt \in SuppliedTimes,
          anl \in BOOLEAN, nj \in Njobs :
          /\ mode' = md
          /\ njobs' = nj
          /\ commit_message' = cm
          /\ suppliedMsg' = cm
          /\ build_time' = bt
          /\ allow_not_latest' = anl
    /\ metadata' = NoMeta
    /\ package_uuid_exists' = FALSE
    /\ editor' = [none |-> TRUE]
    /\ last_tagged' = NotCached
    /\ runNo' = runNo + 1
    /\ pc' = Entry(PhaseOrder[1])
    /\ phases' = << PhaseOrder[1] >>
    /\ varnum' = 0
    /\ err' = ""
    /\ cmdLog' = << >>
    /\ tagCalls' = 0
    /\ editorCalls' = 0
    /\ seen' = NoSeen
    /\ postLog' = << >>
    /\ emailOut' = NoEmail
    /\ tagLog' = NoTagLog
    /\ central0' = Central
    /\ UNCHANGED << centralVars, vcsTags, changelog_file, firstInstallRun,
                    uuidWriter, scratch,
                    tmpf,
                    sideVars >>

\* pre_build: self.metadata = self.get_metadata()
GetMetadata ==
    /\ pc = "get_metadata"
    /\ \E m \in MetaInputs,
          tracked \in IF mode = "svn" THEN BOOLEAN ELSE {TRUE} :
          LET e == get_metadata_error(m, tracked)
          IN  /\ seen' = [seen EXCEPT !.metaOk = (m \in GoodMeta),
                                      !.tracked = tracked]
              /\ IF e # ""
                 THEN Raise("pre_build", e) /\ UNCHANGED metadata
                 ELSE Goto("pre_build_env") /\ metadata' = MetaOf(m)
    /\ UNCHANGED << centralVars, vcsTags, changelog_file, mode,
                    commit_message, build_time, allow_not_latest,
                    package_uuid_exists, editor, last_tagged, runNo, cmdLog,
                    tagCalls, editorCalls, central0, firstInstallRun,
                    uuidWriter, suppliedMsg, scratch,
                    postLog, tagLog, tmpf, njobs, emailOut,
                    sideVars >>

\* pre_build, lines 572-576: a build time of 0 becomes the current time
pinned_build_time_raw(bt, now) == bt
pinned_build_time(bt, now) == IF bt = 0 THEN now ELSE bt

\* pre_build: release root, check_uuid, variants, scratch root, build time,
\* editor setting
PreBuildEnv ==
    /\ pc = "pre_build_env"
    /\ \E relPath \in BOOLEAN, now \in Nows,
          editorEnv \in IF commit_message.none THEN BOOLEAN ELSE {TRUE} :
          LET cu == check_uuid(uuidFile, metadata.uuid)
              bt == pinned_build_time(build_time, now)
          IN  /\ seen' = [seen EXCEPT !.relPath = relPath,
                                      !.uuidChecked = relPath]
              /\ IF ~relPath
                 THEN /\ Raise("pre_build", "release_path_unset")
                      /\ UNCHANGED << package_uuid_exists, build_time,
                                      editor, commit_message, scratch >>
                 ELSE IF cu.raises
                 THEN /\ Raise("pre_build", "uuid_mismatch")
                      /\ UNCHANGED << package_uuid_exists, build_time,
                                      editor, commit_message, scratch >>
                 ELSE /\ package_uuid_exists' = cu.exists
                      /\ scratch' = fresh_base_dir(scratch, runNo)
                      /\ build_time' = bt
                      /\ IF ~commit_message.none
                         THEN /\ Goto("validate_repostate")
                              /\ UNCHANGED << editor, commit_message >>
                         ELSE IF ~editorEnv
                         THEN /\ Raise("pre_build", "editor_unset")
                              /\ UNCHANGED << editor, commit_message >>
                         ELSE /\ editor' = [none |-> FALSE]
                              /\ commit_message' = Message(<< >>)
                              /\ Goto("validate_repostate")
    /\ UNCHANGED << centralVars, vcsTags, changelog_file, mode,
                    allow_not_latest, metadata, last_tagged, runNo, cmdLog,
                    tagCalls, editorCalls, central0, firstInstallRun,
                    uuidWriter, suppliedMsg, postLog, tagLog, tmpf, njobs, emailOut,
                    sideVars >>

\* pre_build: self.validate_repostate()
ValidateRepostate ==
    /\ pc = "validate_repostate"
    /\ \E clean \in IF mode = "base" THEN {TRUE} ELSE BOOLEAN :
          LET e == validate_repostate_error(clean)
          IN  /\ seen' = [seen EXCEPT !.clean = clean]
              /\ IF e # "" THEN Raise("pre_build", e)
                 ELSE Goto("validate_version")
    /\ UNCHANGED << centralVars, vcsTags, changelog_file, mode,
                    commit_message, build_time, allow_not_latest, metadata,
                    package_uuid_exists, editor, last_tagged, runNo, cmdLog,
                    tagCalls, editorCalls, central0, firstInstallRun,
                    uuidWriter, suppliedMsg, scratch,
                    postLog, tagLog, tmpf, njobs, emailOut,
                    sideVars >>

\* pre_build: self.validate_version()
ValidateVersion ==
    /\ pc = "validate_version"
    /\ \E tagUrlExists \in IF mode = "svn" THEN BOOLEAN ELSE { FALSE } :
          LET e == validate_version_error(last_tagged,
                       Version(metadata.version), tagUrlExists)
          IN  /\ last_tagged' = validate_version_cache(last_tagged)
              /\ seen' = [seen EXCEPT !.versionChecked = TRUE,
                                      !.tagUrlExists = tagUrlExists]
              /\ IF e # "" THEN Raise("pre_build", e)
                 ELSE Goto("write_changelog")
    /\ UNCHANGED << centralVars, vcsTags, changelog_file, mode,
                    commit_message, build_time, allow_not_latest, metadata,
                    package_uuid_exists, editor, runNo, cmdLog, tagCalls,
                    editorCalls, central0, firstInstallRun, uuidWriter,
                    suppliedMsg, scratch,
                    postLog, tagLog, tmpf, njobs, emailOut,
                    sideVars >>

\* pre_build: self._write_changelog()
WriteChangelog ==
    /\ pc = "write_changelog"
    /\ \E text \in IF mode = "base" THEN {<< >>} ELSE Changelogs :
          LET changelog == get_changelog(text)
          IN  /\ commit_message' =
                     write_changelog_message(commit_message, changelog)
              /\ changelog_file' =
                     write_changelog_file(changelog_file, changelog)
              /\ seen' = [seen EXCEPT !.changelog = changelog]
    \* Mercurial's get_changelog reads self.last_tagged_version
    /\ last_tagged' = IF mode = "hg" THEN last_tagged_version(last_tagged)
                      ELSE last_tagged
    /\ Goto("get_commit_message")
    /\ UNCHANGED << centralVars, vcsTags, mode, build_time, allow_not_latest,
                    metadata, package_uuid_exists, editor, runNo, cmdLog,
                    tagCalls, editorCalls, central0, firstInstallRun,
                    uuidWriter, suppliedMsg, scratch,
                    postLog, tagLog, tmpf, njobs, emailOut,
                    sideVars >>

\* _get_commit_message, lines 311-314: the temporary commit file is written
WriteCommitFile ==
    /\ pc = "get_commit_message"
    /\ tmpf' = TRUE
    /\ Goto("edit_commit_message")
    /\ UNCHANGED << centralVars, vcsTags, changelog_file, mode,
                    commit_message, build_time, allow_not_latest, metadata,
                    package_uuid_exists, editor, last_tagged, runNo, cmdLog,
                    tagCalls, editorCalls, seen, central0, firstInstallRun,
                    uuidWriter, suppliedMsg, scratch, postLog, tagLog, njobs, emailOut,
                    sideVars >>

\* the finally clause of _get_commit_message: os.remove(tmpf) however the try
\* block was left
remove_on_success(e) == e = ""
finally_removes(e) == TRUE

\* _get_commit_message, lines 316-335: the editor, the prompt, the clean-up
GetCommitMessage ==
    /\ pc = "edit_commit_message"
    /\ \E edRc \in {0, 1}, edChanged \in BOOLEAN, reply \in {"c", "a", "EOF"} :
          LET g == get_commit_message(editor, commit_message, edRc,
                                      edChanged, reply)
          IN  /\ editorCalls' = editorCalls + g.calls
              /\ commit_message' = g.msg
              /\ tmpf' = IF finally_removes(g.err) THEN FALSE ELSE tmpf
              /\ IF g.err # "" THEN Raise("pre_build", g.err)
                 ELSE Return("pre_build")
    /\ UNCHANGED << centralVars, vcsTags, changelog_file, mode, build_time,
                    allow_not_latest, metadata, package_uuid_exists, editor,
                    last_tagged, runNo, cmdLog, tagCalls, seen, central0,
                    firstInstallRun, uuidWriter, suppliedMsg, scratch,
                    postLog, tagLog, njobs, emailOut,
                    sideVars >>

\* one iteration of the loop of build(): build_variant
BuildVariant ==
    /\ pc = "build"
    /\ \E exportRc \in {0, 1},
          hgOk \in IF mode = "hg" THEN BOOLEAN ELSE {TRUE}, rc \in {0, 1} :
          LET tagErr == get_tag_meta_str_error(hgOk)
              subdir == build_subdir(HasVariants, varnum)
              cleaned == clean_subdir(scratch, subdir)
              export == Cmd("export", varnum, exportRc, subdir)
          IN  IF exportRc # 0
              THEN /\ cmdLog' = Append(cmdLog, export)
                   /\ scratch' = cleaned
                   /\ Raise("build", "export_failed")
              ELSE IF tagErr # ""
              THEN /\ cmdLog' = Append(cmdLog, export)
                   /\ scratch' = copy_source(cleaned, subdir, runNo, varnum)
                   /\ Raise("build", tagErr)
              ELSE /\ cmdLog' = cmdLog \o
                         << export, Cmd("build", varnum, rc, subdir) >>
                   /\ scratch' = copy_source(cleaned, subdir, runNo, varnum)
                   /\ IF BuildFailed(rc)
                      THEN Raise("build", "build_failed")
                      ELSE IF varnum + 1 < NVariants
                      THEN /\ varnum' = varnum + 1
                           /\ UNCHANGED << pc, phases, err >>
                      ELSE Return("build")
    /\ UNCHANGED << centralVars, vcsTags, changelog_file, mode,
                    commit_message, build_time, allow_not_latest, metadata,
                    package_uuid_exists, editor, last_tagged, runNo, tagCalls,
                    editorCalls, seen, central0, firstInstallRun, uuidWriter,
                    suppliedMsg, postLog, tagLog, tmpf, njobs, emailOut,
                    sideVars >>

\* install(), up to its loop: the family directory and package.uuid
NeedUuidWrite_always(exists) == TRUE
NeedUuidWrite(exists) == ~exists

InstallBegin ==
    /\ pc = "install"
    /\ firstInstallRun' = IF firstInstallRun = 0 THEN runNo
                          ELSE firstInstallRun
    /\ IF NeedUuidWrite(package_uuid_exists)
       THEN IF pkgDir
            THEN /\ Raise("install", "family_dir_exists")
                 /\ UNCHANGED << pkgDir, uuidFile, uuidWrites, uuidWriter >>
            ELSE /\ pkgDir' = TRUE
                 /\ uuidFile' = File(metadata.uuid)
                 /\ uuidWrites' = uuidWrites + 1
                 /\ uuidWriter' = runNo
                 /\ Goto("install_variant")
       ELSE /\ Goto("install_variant")
            /\ UNCHANGED << pkgDir, uuidFile, uuidWrites, uuidWriter >>
    /\ UNCHANGED << installed, timeWrites, vcsTags, changelog_file, mode,
                    commit_message, build_time, allow_not_latest, metadata,
                    package_uuid_exists, editor, last_tagged, runNo, cmdLog,
                    tagCalls, editorCalls, seen, central0, suppliedMsg,
                    scratch,
                    postLog, tagLog, tmpf, njobs, emailOut,
                    sideVars >>

\* one iteration of the loop of install(): install_variant
InstallVariant ==
    /\ pc = "install_variant"
    /\ \E rcQuery \in {0, 1},
          hgOk \in IF mode = "hg" THEN BOOLEAN ELSE {TRUE}, rc \in {0, 1} :
          LET tagErr == get_tag_meta_str_error(hgOk)
              subdir == install_subdir(HasVariants, varnum)
              query == Cmd("query", varnum, rcQuery, subdir)
          IN  IF QueryFailed(rcQuery)
              THEN /\ cmdLog' = Append(cmdLog, query)
                   /\ Raise("install", "install_failed")
                   /\ UNCHANGED installed
              ELSE IF tagErr # ""
              THEN /\ cmdLog' = Append(cmdLog, query)
                   /\ Raise("install", tagErr)
                   /\ UNCHANGED installed
              ELSE /\ cmdLog' = cmdLog \o
                                    << query, Cmd("install", varnum, rc, subdir) >>
                   /\ IF ReturnCodeFails(rc)
                      THEN /\ Raise("install", "install_failed")
                           /\ UNCHANGED installed
                      ELSE /\ installed' = installed \cup
                                 { [ ver |-> metadata.version, var |-> varnum,
                                     uuid |-> metadata.uuid ] }
                           /\ IF varnum + 1 < NVariants
                              THEN /\ varnum' = varnum + 1
                                   /\ UNCHANGED << pc, phases, err >>
                              ELSE Return("install")
    /\ UNCHANGED << pkgDir, uuidFile, uuidWrites, timeWrites, vcsTags,
                    changelog_file, mode, commit_message, build_time,
                    allow_not_latest, metadata, package_uuid_exists, editor,
                    last_tagged, runNo, tagCalls, editorCalls, seen, central0,
                    firstInstallRun, uuidWriter, suppliedMsg, scratch,
                    postLog, tagLog, tmpf, njobs, emailOut,
                    sideVars >>

\* write_time_metafile: open(time_metafile, 'w') and one write
write_time_metafile_skip(tw, ver) == tw
write_time_metafile(tw, ver) == [tw EXCEPT ![ver] = @ + 1]

\* post_install, first statement: write_time_metafile
WriteTimeMetafile ==
    /\ pc = "write_time"
    /\ timeWrites' = write_time_metafile(timeWrites, metadata.version)
    /\ postLog' = Append(postLog, "write_time_metafile")
    /\ Goto("send_email")
    /\ UNCHANGED << pkgDir, uuidFile, uuidWrites, installed, vcsTags,
                    changelog_file, mode, commit_message, build_time,
                    allow_not_latest, metadata, package_uuid_exists, editor,
                    last_tagged, runNo, cmdLog, tagCalls, editorCalls, seen,
                    central0, firstInstallRun, uuidWriter, suppliedMsg, scratch,
                    tagLog, tmpf, njobs, emailOut,
                    sideVars >>

\* post_install, second statement: send_email
SendEmail ==
    /\ pc = "send_email"
    /\ postLog' = Append(postLog, "send_email")
    /\ \E to_ \in EmailTos, smtp \in SmtpOutcomes :
          LET r == send_release_email(to_, smtp)
          IN  /\ emailOut' = r
              /\ IF r.raised # "" THEN Raise("post_install", r.raised)
                 ELSE Goto("create_tag")
    /\ UNCHANGED << centralVars, vcsTags, changelog_file, mode,
                    commit_message, build_time, allow_not_latest, metadata,
                    package_uuid_exists, editor, last_tagged, runNo, cmdLog,
                    tagCalls, editorCalls, seen, central0, firstInstallRun,
                    uuidWriter, suppliedMsg, scratch,
                    tagLog, tmpf, njobs,
                    sideVars >>

\* SvnRezReleaseMode.create_release_tag: callback_get_log_message
svn_log_message(msg) == Message(msg.text)

\* HgRezReleaseMode.create_release_tag: the --message argument of "hg tag",
\* given with a patch queue only; without one hg writes its own default text
hg_tag_message(patch_path, msg) ==
    IF patch_path THEN Message(msg.text) ELSE NoneMessage

\* hg tag -f <name>: the tag list afterwards
AddTag(tags, name) ==
    IF \E i \in 1 .. Len(tags) : tags[i] = name THEN tags
    ELSE Append(tags, name)

\* post_install, last statement: create_release_tag
CreateReleaseTag ==
    /\ pc = "create_tag"
    /\ tagCalls' = tagCalls + 1
    /\ postLog' = Append(postLog, "create_release_tag")
    /\ \E tagOk \in IF mode = "base" THEN {TRUE} ELSE BOOLEAN,
          patch_path \in IF mode = "hg" THEN BOOLEAN ELSE { FALSE } :
          IF ~tagOk
          THEN /\ Raise("post_install", "tag_failed")
               /\ UNCHANGED << vcsTags, tagLog >>
          ELSE /\ vcsTags' = IF mode = "hg" /\ ~patch_path
                             THEN AddTag(vcsTags, Str(Version(metadata.version)))
                             ELSE vcsTags
               /\ tagLog' = IF mode = "hg"
                            THEN TagLog(hg_tag_message(patch_path,
                                                       commit_message))
                            ELSE IF mode = "svn"
                            THEN TagLog(svn_log_message(commit_message))
                            ELSE tagLog
               /\ Return("post_install")
    /\ UNCHANGED << centralVars, changelog_file, mode, commit_message,
                    build_time, allow_not_latest, metadata,
                    package_uuid_exists, editor, last_tagged, runNo, cmdLog,
                    editorCalls, seen, central0, firstInstallRun, uuidWriter,
                    suppliedMsg, scratch,
                    tmpf, njobs, emailOut,
                    sideVars >>

\* ------------------------------------------------- registry of release modes
Classes == { "RezReleaseMode", "SvnRezReleaseMode", "HgRezReleaseMode" }
\* something that is no subclass of RezReleaseMode
NotAMode == "object"
CustomNames == { "git", "p4" }

ModeEntry(name, cls) == [ name |-> name, cls |-> cls ]
InSeq(x, q) == \E i \in DOMAIN q : q[i] = x

list_release_modes(reg) == [ i \in DOMAIN reg |-> reg[i].name ]

\* _release_classes.insert(0, (name, cls))
insert_back(reg, e) == Append(reg, e)
insert_front(reg, e) == << e >> \o reg

\* register_release_mode: the exception raised ("" if none), the registry after
register_release_mode(reg, name, cls) ==
    IF cls \notin Classes
    THEN [ raised |-> "AssertionError", reg |-> reg ]
    ELSE IF InSeq(name, list_release_modes(reg))
    THEN [ raised |-> "AssertionError", reg |-> reg ]
    ELSE [ raised |-> "", reg |-> insert_front(reg, ModeEntry(name, cls)) ]

\* the registry once the module is imported: lines 730, 961 and 1049
RegistryAtImport ==
    LET r1 == register_release_mode(<< >>, "base", "RezReleaseMode").reg
        r2 == register_release_mode(r1, "svn", "SvnRezReleaseMode").reg
    IN  register_release_mode(r2, "hg", "HgRezReleaseMode").reg

\* what a path looks like to the constructors: svn is what pysvn does on it
\* (an entry, None, a ClientError, or pysvn cannot be imported), hg is what
\* the .hg directory and "hg root" show
ProbePaths ==
    [ svn : { "entry", "none", "ClientError", "ImportError" },
      hg : { "root", "no_hgdir", "not_root", "hg_failed" } ]
\* a directory with no VCS markers
PlainDirectory(path) == path.svn = "none" /\ path.hg = "no_hgdir"

\* cls(path): the exception the constructor raises, "" if none
Construct(cls, path) ==
    CASE cls = "RezReleaseMode" -> ""
      [] cls = "SvnRezReleaseMode" ->
            IF path.svn = "ImportError" THEN "ImportError"
            ELSE IF path.svn = "ClientError" THEN "ClientError"
            ELSE IF path.svn = "none" THEN "RezReleaseUnsupportedMode"
            ELSE ""
      [] cls = "HgRezReleaseMode" ->
            IF path.hg = "root" THEN "" ELSE "RezReleaseUnsupportedMode"

\* list_available_release_modes: "except: pass" drops every exception
list_available_release_modes(reg, path) ==
    [ raised |-> "",
      modes |-> list_release_modes(
                    SelectSeq(reg, LAMBDA e : Construct(e.cls, path) = "")) ]

NoPath == [ svn |-> "none", hg |-> "no_hgdir" ]
RegOut(op, name, raised, modes, path) ==
    [ op |-> op, name |-> name, raised |-> raised, modes |-> modes,
      path |-> path ]

RegisterReleaseMode ==
    /\ \E name \in Modes \cup CustomNames, cls \in Classes \cup { NotAMode } :
          LET r == register_release_mode(release_classes, name, cls)
          IN  /\ release_classes' = r.reg
              /\ regOut' = RegOut("register", name, r.raised, << >>, NoPath)
    /\ UNCHANGED << runVars, fnVars, gitVars, logVars, raceVars >>

ListAvailableReleaseModes ==
    /\ \E path \in ProbePaths :
          LET r == list_available_release_modes(release_classes, path)
          IN  regOut' = RegOut("list", "", r.raised, r.modes, path)
    /\ UNCHANGED << release_classes, runVars, fnVars, gitVars, logVars, raceVars >>

RegIdle ==
    /\ release_classes = RegistryAtImport
    /\ regOut = RegOut("", "", "", << >>, NoPath)

\* ------------------------------------------------------- the git plugin
\* self.git(...) runs git in the package root: it returns the lines of the
\* output and raises ReleaseVCSError when git exits non-zero.
\*
\* gitRepo: tags (set of [name, msg]), pushed (tag names at the remote),
\* created (name -> successful "git tag -a" commands so far), untracked (set
\* of files), dirty (uncommitted changes), upstream ("tracking": @{u}
\* resolves; "none": git fails with the text "No upstream branch";
\* "error": git fails with any other text), ahead / behind (distance to the
\* tracking ref as the working copy knows it), remoteBehind (commits behind
\* once the remote has been fetched).
MaxDist == 2
MaxTagCmds == 2
GitTagNames == { "1", "2" }
GitMessages == { "None", "m" }
GitFiles == { "f1", "f2" }
None == "None"

GitWorkingCopies ==
    { r \in [ tags : { {} }, pushed : { {} },
              created : { [ n \in GitTagNames |-> 0 ] },
              untracked : SUBSET GitFiles, dirty : BOOLEAN,
              upstream : { "tracking", "none", "error" },
              ahead : 0 .. MaxDist, behind : 0 .. MaxDist,
              remoteBehind : 0 .. MaxDist ] :
          r.behind <= r.remoteBehind }

\* settings: releasable is "any" when releasable_branches is empty, else
\* whether the current branch matches one of its patterns
GitSettings ==
    [ allow_no_upstream : BOOLEAN, releasable : { "any", "match", "no_match" } ]

\* get_tracking_branch: only a failure whose text holds "No upstream branch"
\* is taken as "no remote"
IsNoUpstream_any(e) == TRUE
IsNoUpstream(e) == e = "none"

get_tracking_branch(repo) ==
    IF repo.upstream = "tracking"
    THEN [ raised |-> "", remote |-> "origin", branch |-> "master" ]
    ELSE IF ~IsNoUpstream(repo.upstream)
    THEN [ raised |-> "tracking_failed", remote |-> None, branch |-> None ]
    ELSE [ raised |-> "", remote |-> None, branch |-> None ]

\* the bracket of the first line of "git status --short -b", as the parts
\* between commas: [ahead a], [behind b], [ahead a, behind b] or no bracket
status_bracket(repo) ==
    (IF repo.ahead > 0 THEN << [ adj |-> "ahead", n |-> repo.ahead ] >>
     ELSE << >>)
    \o (IF repo.behind > 0 THEN << [ adj |-> "behind", n |-> repo.behind ] >>
        ELSE << >>)

\* get_relative_to_remote: s2.split(",")[0]
last_part(parts) == parts[Len(parts)]
first_part(parts) == parts[1]

get_relative_to_remote(repo) ==
    LET toks == status_bracket(repo)
    IN  IF toks # << >>
        THEN LET part == first_part(toks)
             IN  IF part.adj = "behind" THEN 0 - part.n ELSE part.n
        ELSE 0

\* git remote update <remote>: the tracking ref catches up with the remote
remote_update(repo) == [ repo EXCEPT !.behind = repo.remoteBehind ]

\* validate_repostate, line 113: b is the list of output lines, which never
\* equals the string "true"
is_bare(repo) == FALSE

\* validate_repostate, line 120: "if output"
has_untracked_never(output) == FALSE
has_untracked(output) == output # {}

Abs(n) == IF n < 0 THEN 0 - n ELSE n

GitResult(op, raised, cmds, repo) ==
    [ op |-> op, raised |-> raised, cmds |-> cmds, repo |-> repo,
      files |-> {}, n |-> 0, dir |-> "", name |-> "" ]

\* validate_repostate, lines 141-154: with a non-empty releasable_branches
\* the release is refused when re.search finds no pattern in the branch name
branch_rejected_nonempty(releasable) == releasable # "any"
branch_rejected(releasable) == releasable = "no_match"

\* validate_repostate: the error raised ("" if none), what its message
\* reports, the git commands issued and the repository afterwards
git_validate_repostate(repo, st, fetchOk) ==
    LET tb == get_tracking_branch(repo)
        c1 == << "rev-parse --is-bare-repository" >>
        c2 == Append(c1, "rev-parse @{u}")
        c3 == Append(c2, "ls-files --other")
        c4 == Append(c3, "status --porcelain")
        c5 == IF st.releasable = "any" THEN c4
              ELSE Append(c4, "rev-parse HEAD")
        c6 == Append(c5, "remote update")
        c7 == Append(c6, "status --short -b")
        fetched == remote_update(repo)
        n == get_relative_to_remote(fetched)
        R(raised, cmds) == GitResult("validate_repostate", raised, cmds, repo)
    IN  IF is_bare(repo) THEN R("bare", c1)
        ELSE IF tb.raised # "" THEN R(tb.raised, c2)
        ELSE IF has_untracked(repo.untracked)
        THEN [ R("untracked", c3) EXCEPT !.files = repo.untracked ]
        ELSE IF repo.dirty THEN R("uncommitted", Append(c4, "status"))
        ELSE IF tb.remote = None /\ ~st.allow_no_upstream
        THEN R("no_upstream", c4)
        ELSE IF branch_rejected(st.releasable) THEN R("branch", c5)
        ELSE IF tb.remote = None THEN R("", c5)
        ELSE IF ~fetchOk THEN R("fetch_failed", c6)
        ELSE IF n # 0
        THEN [ R("diverged", c7) EXCEPT
                 !.repo = fetched, !.n = Abs(n),
                 !.dir = IF n > 0 THEN "ahead of" ELSE "behind" ]
        ELSE [ R("", c7) EXCEPT !.repo = fetched ]

\* create_release_tag, line 226: "if tag_name in tags"
tag_exists_never(name, tags) == FALSE
tag_exists(name, tags) == \E t \in tags : t.name = name

\* "-m", message or ''
MessageOrEmpty(message) == IF message = None THEN "" ELSE message

git_create_release_tag(repo, tag_name, message, tagOk, pushOk) ==
    LET tb == get_tracking_branch(repo)
        c1 == << "tag" >>
        c2 == Append(c1, "tag -a")
        c3 == Append(c2, "rev-parse @{u}")
        c4 == Append(c3, "push")
        tagged == [ repo EXCEPT
                      !.tags = @ \cup { [ name |-> tag_name,
                                          msg |-> MessageOrEmpty(message) ] },
                      !.created[tag_name] = @ + 1 ]
        R(raised, cmds, rp) ==
            [ GitResult("create_release_tag", raised, cmds, rp)
                EXCEPT !.name = tag_name ]
    IN  IF tag_exists(tag_name, repo.tags) THEN R("", c1, repo)
        ELSE IF ~tagOk THEN R("tag_failed", c2, repo)
        ELSE IF tb.raised # "" THEN R(tb.raised, c3, tagged)
        ELSE IF tb.remote = None THEN R("", c3, tagged)
        ELSE IF ~pushOk THEN R("push_failed", c4, tagged)
        ELSE R("", c4, [ tagged EXCEPT !.pushed = @ \cup { tag_name } ])

GitOut(r) == [ op |-> r.op, raised |-> r.raised, files |-> r.files,
               n |-> r.n, dir |-> r.dir, name |-> r.name ]
NoGitOut == GitOut(GitResult("", "", << >>, 0))

GitValidateRepostate ==
    /\ \E fetchOk \in IF gitRepo.upstream = "tracking" THEN BOOLEAN
                        ELSE { TRUE } :
          LET r == git_validate_repostate(gitRepo, gitSettings, fetchOk)
          IN  /\ gitRepo' = r.repo
              /\ gitCmds' = r.cmds
              /\ gitOut' = GitOut(r)
    /\ UNCHANGED << gitSettings, runVars, fnVars, regVars, logVars, raceVars >>

GitCreateReleaseTag ==
    /\ \E tag_name \in GitTagNames, message \in GitMessages,
          tagOk \in BOOLEAN,
          pushOk \in IF gitRepo.upstream = "tracking" THEN BOOLEAN
                     ELSE { TRUE } :
          /\ gitRepo.created[tag_name] < MaxTagCmds
          /\ LET r == git_create_release_tag(gitRepo, tag_name, message,
                                             tagOk, pushOk)
             IN  /\ gitRepo' = r.repo
                 /\ gitCmds' = r.cmds
                 /\ gitOut' = GitOut(r)
    /\ UNCHANGED << gitSettings, runVars, fnVars, regVars, logVars, raceVars >>

\* ----------------------------------------------------------- specification
InitRun ==
    /\ pkgDir = FALSE
    /\ uuidFile = NoFile
    /\ uuidWrites = 0
    /\ installed = {}
    /\ timeWrites = [v \in MetaVersions |-> 0]
    /\ vcsTags = << >>
    /\ changelog_file = NoFile
    /\ scratch = {}
    /\ mode = "base"
    /\ pc = "idle"
    /\ varnum = 0
    /\ commit_message = NoneMessage
    /\ build_time = 0
    /\ allow_not_latest = FALSE
    /\ metadata = NoMeta
    /\ package_uuid_exists = FALSE
    /\ editor = [none |-> TRUE]
    /\ last_tagged = NotCached
    /\ runNo = 0
    /\ phases = << >>
    /\ err = ""
    /\ cmdLog = << >>
    /\ tagCalls = 0
    /\ editorCalls = 0
    /\ seen = NoSeen
    /\ central0 = Central
    /\ firstInstallRun = 0
    /\ uuidWriter = 0
    /\ suppliedMsg = NoneMessage
    /\ postLog = << >>
    /\ tagLog = NoTagLog
    /\ tmpf = FALSE
    /\ njobs = 1
    /\ emailOut = NoEmail

\* no git plugin in use: a clean working copy that is never touched
\* ------------------------------------------------- git: history queries
MaxCommits == 4
\* -n 100 of get_commit_details
LogLimit == 100

\* a history is the sequence of commits reachable from HEAD, oldest first; a
\* commit is named by its position and carries whether it is a merge; the
\* root commit has no parent, so it is none
GitHistories ==
    UNION { { h \in [ 1 .. n -> BOOLEAN ] : ~h[1] } : n \in 1 .. MaxCommits }

\* previous_revision: None, or a dict whose "commit" is missing or empty
\* (commit 0), or a dict naming a commit; a commit the repository does not
\* have is named by a position past HEAD
NoRevision == [ none |-> TRUE, commit |-> 0 ]
Revision(k) == [ none |-> FALSE, commit |-> k ]
PreviousRevisions(h) ==
    { NoRevision } \cup { Revision(k) : k \in 0 .. Len(h) + 1 }

\* git log [prev..HEAD] [--no-merges]: the commits reachable from HEAD and
\* not from prev (0: no range argument), newest first
git_log(h, prev, no_merges) ==
    LET n == Len(h)
        range == [ i \in 1 .. n - prev |-> n + 1 - i ]
    IN  SelectSeq(range, LAMBDA c : ~(no_merges /\ h[c]))

Reverse(q) == [ i \in 1 .. Len(q) |-> q[Len(q) + 1 - i] ]
FirstN(q, n) == IF Len(q) <= n THEN q ELSE SubSeq(q, 1, n)

LogOut(op, prev, out, raised) ==
    [ op |-> op, prev |-> prev, out |-> out, raised |-> raised ]
NoLogOut == LogOut("", NoRevision, << >>, "")

\* GitReleaseVCS.get_changelog
git_get_changelog(h, previous_revision) ==
    LET prev_commit == IF previous_revision.none THEN 0
                       ELSE previous_revision.commit
    IN  IF prev_commit # 0
        THEN IF prev_commit > Len(h)
             THEN LogOut("get_changelog", previous_revision, << >>,
                         "log_failed")
             ELSE LogOut("get_changelog", previous_revision,
                         git_log(h, prev_commit, FALSE), "")
        ELSE LogOut("get_changelog", previous_revision,
                    git_log(h, 0, FALSE), "")

\* GitReleaseVCS.get_commit_details
git_get_commit_details(h, previous_revision) ==
    LET previous_commit == IF previous_revision.none THEN 0
                           ELSE previous_revision.commit
    IN  IF previous_commit # 0
        THEN IF previous_commit > Len(h)
             THEN LogOut("get_commit_details", previous_revision, << >>,
                         "log_failed")
             ELSE LogOut("get_commit_details", previous_revision,
                         Reverse(FirstN(git_log(h, previous_commit, TRUE),
                                        LogLimit)), "")
        ELSE LogOut("get_commit_details", previous_revision, << >>, "")

GitGetChangelog ==
    /\ \E previous_revision \in PreviousRevisions(gitHistory) :
          gitLogOut' = git_get_changelog(gitHistory, previous_revision)
    /\ UNCHANGED << gitHistory, runVars, fnVars, regVars, gitVars, raceVars >>

GitGetCommitDetails ==
    /\ \E previous_revision \in PreviousRevisions(gitHistory) :
          gitLogOut' = git_get_commit_details(gitHistory, previous_revision)
    /\ UNCHANGED << gitHistory, runVars, fnVars, regVars, gitVars, raceVars >>

GitIdle ==
    /\ gitRepo = [ tags |-> {}, pushed |-> {},
                   created |-> [ n \in GitTagNames |-> 0 ],
                   untracked |-> {}, dirty |-> FALSE, upstream |-> "tracking",
                   ahead |-> 0, behind |-> 0, remoteBehind |-> 0 ]
    /\ gitSettings = [ allow_no_upstream |-> FALSE, releasable |-> "any" ]
    /\ gitCmds = << >>
    /\ gitOut = NoGitOut

\* ------------------------------------- two runs of release() side by side
\* Two operators release the same package family at once. Each run is the
\* sequence check_uuid (pre_build), build, install; every filesystem call is
\* one step. The central directory of the family does not exist yet.
RaceRuns == { 1, 2 }
RaceProc(p, u, n) ==
    [ pc |-> p, uuid |-> u, nvar |-> n, varnum |-> 0,
      package_uuid_exists |-> FALSE, madeDir |-> FALSE, wrote |-> FALSE,
      err |-> "" ]
NoRaceFs == [ pkgDir |-> FALSE, uuidFile |-> NoFile, installed |-> {} ]

RaceSet(p, field, val) == raceProc' = [raceProc EXCEPT ![p][field] = val]
RaceFail(p, e) ==
    raceProc' = [raceProc EXCEPT ![p].pc = "failed", ![p].err = e]

\* pre_build: self.package_uuid_exists = self.check_uuid(...)
RaceCheckUuid(p) ==
    /\ raceProc[p].pc = "check_uuid"
    /\ LET cu == check_uuid(raceFs.uuidFile, raceProc[p].uuid)
       IN  IF cu.raises THEN RaceFail(p, "uuid_mismatch")
           ELSE raceProc' = [raceProc EXCEPT
                               ![p].pc = "build",
                               ![p].package_uuid_exists = cu.exists]
    /\ UNCHANGED raceFs

\* build(): all variants are built in the working directory of the run
RaceBuild(p) ==
    /\ raceProc[p].pc = "build"
    /\ \E rc \in {0, 1} :
          IF BuildFailed(rc) THEN RaceFail(p, "build_failed")
          ELSE RaceSet(p, "pc", "install")
    /\ UNCHANGED raceFs

\* install(): os.makedirs(self.pkg_release_dir) when check_uuid found no file
RaceMakedirs(p) ==
    /\ raceProc[p].pc = "install"
    /\ IF NeedUuidWrite(raceProc[p].package_uuid_exists)
       THEN IF raceFs.pkgDir
            THEN /\ RaceFail(p, "family_dir_exists")
                 /\ UNCHANGED raceFs
            ELSE /\ raceFs' = [raceFs EXCEPT !.pkgDir = TRUE]
                 /\ raceProc' = [raceProc EXCEPT ![p].pc = "open_uuid",
                                                 ![p].madeDir = TRUE]
       ELSE /\ RaceSet(p, "pc", "install_variant")
            /\ UNCHANGED raceFs

\* install(): f = open(self.package_uuid_file, 'w')
RaceOpenUuid(p) ==
    /\ raceProc[p].pc = "open_uuid"
    /\ raceFs' = [raceFs EXCEPT !.uuidFile = File(<< >>)]
    /\ raceProc' = [raceProc EXCEPT ![p].pc = "write_uuid",
                                    ![p].wrote = TRUE]

\* install(): f.write(self.metadata.uuid); f.close()
RaceWriteUuid(p) ==
    /\ raceProc[p].pc = "write_uuid"
    /\ raceFs' = [raceFs EXCEPT !.uuidFile = File(raceProc[p].uuid)]
    /\ RaceSet(p, "pc", "install_variant")

\* install(): one iteration of the loop, install_variant
RaceInstallVariant(p) ==
    /\ raceProc[p].pc = "install_variant"
    /\ \E rc \in {0, 1} :
          LET me == raceProc[p]
              n == IF me.nvar = 0 THEN 1 ELSE me.nvar
          IN  IF ReturnCodeFails(rc)
              THEN /\ RaceFail(p, "install_failed")
                   /\ UNCHANGED raceFs
              ELSE /\ raceFs' = [raceFs EXCEPT !.installed =
                                    @ \cup { [ run |-> p, var |-> me.varnum ] }]
                   /\ raceProc' = [raceProc EXCEPT
                         ![p].varnum = me.varnum + 1,
                         ![p].pc = IF me.varnum + 1 < n THEN "install_variant"
                                   ELSE "done"]

RaceIdle ==
    /\ raceFs = NoRaceFs
    /\ raceProc = [ p \in RaceRuns |-> RaceProc("off", << "a" >>, 0) ]

LogIdle ==
    /\ gitHistory = << FALSE >>
    /\ gitLogOut = NoLogOut

FnIdle ==
    /\ fnPc = "off"
    /\ fnTags = << >>
    /\ fnThis = NoVersion
    /\ fnAllow = FALSE
    /\ fnLast = NoVersion
    /\ fnRaised = FALSE
    /\ fnSvn = NoSvn
    /\ fnErr = ""

Init == InitRun /\ FnIdle /\ RegIdle /\ GitIdle /\ LogIdle /\ RaceIdle

Next ==
    \/ NewRun
    \/ GetMetadata
    \/ PreBuildEnv
    \/ ValidateRepostate
    \/ ValidateVersion
    \/ WriteChangelog
    \/ WriteCommitFile
    \/ GetCommitMessage
    \/ BuildVariant
    \/ InstallBegin
    \/ InstallVariant
    \/ WriteTimeMetafile
    \/ SendEmail
    \/ CreateReleaseTag

Spec == Init /\ [][Next]_vars

\* ---------------------------------------- the version helpers on their own
RECURSIVE SeqsUpTo(_, _)
SeqsUpTo(S, n) ==
    IF n = 0 THEN { << >> }
    ELSE LET shorter == SeqsUpTo(S, n - 1)
         IN  shorter \cup { Append(q, x) : q \in shorter, x \in S }

FnVersions == { Version(NumStr(<<1>>)), Version(NumStr(<<2>>)),
                Version(NumStr(<<1, 1>>)) }

FnInit ==
    /\ InitRun
    /\ RegIdle
    /\ GitIdle
    /\ LogIdle
    /\ RaceIdle
    /\ fnPc = "start"
    /\ fnTags \in SeqsUpTo(TagStrs, MaxTags)
    /\ fnThis \in FnVersions
    /\ fnAllow \in BOOLEAN
    /\ fnLast = NoVersion
    /\ fnRaised = FALSE
    /\ fnSvn = NoSvn
    /\ fnErr = ""

\* self.last_tagged_version evaluated on the tag list fnTags
FnGetLastTaggedVersion ==
    /\ fnPc = "start"
    /\ fnLast' = get_last_tagged_version(fnTags)
    /\ fnPc' = "tagged"
    /\ UNCHANGED << fnTags, fnThis, fnAllow, fnRaised, fnSvn, fnErr >>

\* validate_version on that result
FnValidateVersion ==
    /\ fnPc = "tagged"
    /\ fnRaised' = validate_version_raises(fnAllow, fnLast, fnThis)
    /\ fnPc' = "validated"
    /\ UNCHANGED << fnTags, fnThis, fnAllow, fnLast, fnSvn, fnErr >>

\* the Subversion class: last_tagged_version on a listing of the tags URL
FnSvnGetLastTaggedVersion ==
    /\ fnPc = "start"
    /\ \E exists \in BOOLEAN, branch \in SvnBranches :
          LET r == svn_get_last_tagged_version(exists, fnTags, branch)
          IN  /\ fnSvn' = SvnInput(exists, branch)
              /\ fnLast' = r.val
              /\ fnErr' = r.raised
    /\ fnPc' = "svn_tagged"
    /\ UNCHANGED << fnTags, fnThis, fnAllow, fnRaised >>

\* the Subversion class: validate_version with that result, the tag URL of
\* the version itself existing or not
FnSvnValidateVersion ==
    /\ fnPc = "svn_tagged"
    /\ fnErr = ""
    /\ \E tagUrlExists \in BOOLEAN :
          LET e == svn_validate_version(tagUrlExists)
          IN  /\ fnErr' = IF e # "" THEN e
                          ELSE IF validate_version_raises(fnAllow, fnLast,
                                                          fnThis)
                               THEN "version_not_greater" ELSE ""
    /\ fnRaised' = (fnErr' # "")
    /\ fnPc' = "svn_validated"
    /\ UNCHANGED << fnTags, fnThis, fnAllow, fnLast, fnSvn >>

FnNext ==
    \/ FnGetLastTaggedVersion /\ UNCHANGED << runVars, regVars, gitVars, logVars, raceVars >>
    \/ FnValidateVersion /\ UNCHANGED << runVars, regVars, gitVars, logVars, raceVars >>
    \/ FnSvnGetLastTaggedVersion
            /\ UNCHANGED << runVars, regVars, gitVars, logVars, raceVars >>
    \/ FnSvnValidateVersion
            /\ UNCHANGED << runVars, regVars, gitVars, logVars, raceVars >>

SpecFn == FnInit /\ [][FnNext]_vars

\* ---------------------------------------------------- the git plugin alone
GitInit ==
    /\ InitRun
    /\ FnIdle
    /\ RegIdle
    /\ LogIdle
    /\ RaceIdle
    /\ gitRepo \in GitWorkingCopies
    /\ gitSettings \in GitSettings
    /\ gitCmds = << >>
    /\ gitOut = NoGitOut

GitNext ==
    \/ GitValidateRepostate
    \/ GitCreateReleaseTag

SpecGit == GitInit /\ [][GitNext]_vars

\* ------------------------------------------- the git history queries alone
GitLogInit ==
    /\ InitRun
    /\ FnIdle
    /\ RegIdle
    /\ GitIdle
    /\ gitHistory \in GitHistories
    /\ gitLogOut = NoLogOut
    /\ RaceIdle

GitLogNext ==
    \/ GitGetChangelog
    \/ GitGetCommitDetails

SpecGitLog == GitLogInit /\ [][GitLogNext]_vars

\* ---------------------------------------------- the two runs side by side
RaceInit ==
    /\ InitRun
    /\ FnIdle
    /\ RegIdle
    /\ GitIdle
    /\ LogIdle
    /\ raceFs = NoRaceFs
    /\ raceProc \in [ RaceRuns ->
                         { RaceProc("check_uuid", u, n) :
                               u \in Uuids, n \in 0 .. MaxVariants } ]

RaceRest == UNCHANGED << runVars, fnVars, regVars, gitVars, logVars >>

RaceNext ==
    \/ \E p \in RaceRuns : RaceCheckUuid(p) /\ RaceRest
    \/ \E p \in RaceRuns : RaceBuild(p) /\ RaceRest
    \/ \E p \in RaceRuns : RaceMakedirs(p) /\ RaceRest
    \/ \E p \in RaceRuns : RaceOpenUuid(p) /\ RaceRest
    \/ \E p \in RaceRuns : RaceWriteUuid(p) /\ RaceRest
    \/ \E p \in RaceRuns : RaceInstallVariant(p) /\ RaceRest

SpecRace == RaceInit /\ [][RaceNext]_vars

\* ------------------------------------------------------ the registry alone
RegNext ==
    \/ RegisterReleaseMode
    \/ ListAvailableReleaseModes

SpecReg == Init /\ [][RegNext]_vars

\* ================================================================== claims
Last(q) == q[Len(q)]

FourPhases == << "pre_build", "build", "install", "post_install" >>

\* the phase a position of release() lies in
PhaseOfPc ==
    CASE pc \in {"get_metadata", "pre_build_env", "validate_repostate",
                 "validate_version", "write_changelog", "get_commit_message",
                 "edit_commit_message"}
            -> "pre_build"
      [] pc = "build" -> "build"
      [] pc \in {"install", "install_variant"} -> "install"
      [] pc \in {"write_time", "send_email", "create_tag"} -> "post_install"
      [] OTHER -> "none"

\* C1: release() starts pre_build, build, install, post_install in exactly
\* that order and each at most once per run (the phases started are always
\* a prefix of the four, control is in the last one started, and a finished
\* run has started all four); once a phase has raised, the run stays failed:
\* no further phase is started and nothing is retried, the only step left is
\* the start of another run.
C1_PhaseOrder ==
    /\ [](/\ IsPrefix(phases, FourPhases)
          /\ (PhaseOfPc # "none" => Last(phases) = PhaseOfPc)
          /\ (pc = "done" => phases = FourPhases /\ err = "")
          /\ (pc = "failed" <=> err # ""))
    /\ [][pc = "failed" => runNo' = runNo + 1 /\ phases' = << "pre_build" >>]_vars

C1_Witness == pc = "done" /\ phases = FourPhases /\ runNo = 2

\* install invocations of the current run that returned success
InstallOk(v) ==
    \E i \in DOMAIN cmdLog :
        cmdLog[i].op = "install" /\ cmdLog[i].v = v /\ cmdLog[i].rc = 0
SomeInstallFailed ==
    \E i \in DOMAIN cmdLog :
        cmdLog[i].op \in {"query", "install"} /\ cmdLog[i].rc # 0

\* C2: in every run create_release_tag is invoked at most once, and only
\* after the install action of every variant returned success with none
\* having failed; a run that failed in pre_build, build or install has not
\* invoked it and has created no tag.
C2_TagAfterAllInstalls ==
    /\ tagCalls <= 1
    /\ (tagCalls = 1 =>
            /\ \A v \in 0 .. NVariants - 1 : InstallOk(v)
            /\ ~SomeInstallFailed)
    /\ (pc = "failed" /\ Last(phases) \in {"pre_build", "build", "install"}
            => tagCalls = 0)
    /\ (tagCalls = 0 /\ runNo = 1 => vcsTags = << >>)

C2_Witness == tagCalls = 1 /\ NVariants = 2 /\ pc = "done" /\ vcsTags # << >>

\* C3: when the build tool exits non-zero for a variant, that invocation is
\* the last external invocation of the run (no later variant is exported or
\* built, no install action runs), the run has failed with the build error,
\* and the central release directory is as it was when the run started.
C3_BuildFailureAborts ==
    \A i \in DOMAIN cmdLog :
        cmdLog[i].op = "build" /\ cmdLog[i].rc # 0
            => /\ i = Len(cmdLog)
               /\ pc = "failed"
               /\ err = "build_failed"
               /\ Central = central0

C3_Witness ==
    /\ err = "build_failed"
    /\ NVariants = 2
    /\ varnum = 0
    /\ pkgDir

\* no tag of the repository is at or above the version being released
GreaterThanAllTags ==
    \A i \in DOMAIN vcsTags :
        VersionParses(vcsTags[i])
            => SeqGT(metadata.version.nums, vcsTags[i].nums)

\* C4: every validation failure is raised during pre_build: when one is
\* raised the run has started no other phase, the build tool has not been
\* invoked and the central release directory is unchanged; and a run that
\* got past pre_build had complete metadata, a release root, a clean working
\* copy and (unless allow_not_latest) a version above every tag.
C4_ValidationInPreBuild ==
    /\ (err \in ValidationErrors =>
            /\ pc = "failed"
            /\ phases = << "pre_build" >>
            /\ cmdLog = << >>
            /\ Central = central0)
    /\ (Len(phases) >= 2 =>
            /\ seen.metaOk /\ seen.tracked /\ seen.relPath /\ seen.clean
            /\ seen.uuidChecked
            /\ (mode = "hg" /\ ~allow_not_latest /\ tagCalls = 0
                    => GreaterThanAllTags))

C4_Witness == err = "not_clean" /\ pkgDir /\ installed # {}

\* C5: once package.uuid exists, a run whose metadata uuid differs from the
\* recorded one fails in pre_build with a release error before anything is
\* built or installed, a run whose uuid equals the recorded one passes the
\* check, and all variants installed under the family directory carry the
\* same uuid.
C5_UuidProtection ==
    /\ (err = "uuid_mismatch" =>
            /\ ErrType(err) = "RezReleaseError"
            /\ phases = << "pre_build" >> /\ cmdLog = << >>)
    /\ (seen.uuidChecked /\ central0.uuidFile.exists =>
            (err = "uuid_mismatch"
                <=> metadata.uuid # central0.uuidFile.text))
    /\ (seen.uuidChecked /\ ~central0.uuidFile.exists
            => err # "uuid_mismatch")
    /\ \A x \in installed, y \in installed : x.uuid = y.uuid

C7_TimeMarkerOnce ==
    [][\A v \in MetaVersions :
          timeWrites[v] >= 1 => timeWrites'[v] = timeWrites[v]]_vars

\* dotted comparison stated directly: a <= b iff a is a prefix of b or a is
\* smaller at the first component where they differ
DottedLE(a, b) ==
    \/ IsPrefix(a, b)
    \/ \E i \in 1 .. Len(a) :
          /\ i <= Len(b)
          /\ a[i] < b[i]
          /\ \A j \in 1 .. i - 1 : a[j] = b[j]

\* C8: validate_version raises if and only if allow_not_latest is false, a
\* last tagged version exists, that last tag is not legacy-formatted, and
\* this_version <= last_tagged_version.
C8_ValidateVersion ==
    fnPc = "validated" =>
        (fnRaised <=> /\ ~fnAllow
                      /\ ~IsNone(fnLast)
                      /\ ~fnLast.legacy
                      /\ DottedLE(fnThis.nums, fnLast.nums))

C8_Witness ==
    /\ fnPc = "validated"
    /\ fnRaised
    /\ fnThis.nums = fnLast.nums
    /\ Len(fnTags) = 2

\* the tags of a list that parse, and the greatest of them
Parsed(tags) ==
    { Version(tags[i]) : i \in { j \in DOMAIN tags : VersionParses(tags[j]) } }
IsMax(v, S) == v \in S /\ \A w \in S : DottedLE(w.nums, v.nums)

\* C9: get_last_tagged_version returns the maximum of the tags that parse
\* as versions, skipping unparsable ones, and none only when no tag parses,
\* also when the only parsable tag is version 0.
C9_LastTaggedIsMax ==
    fnPc \in { "tagged", "validated" } =>
        IF Parsed(fnTags) = {} THEN IsNone(fnLast)
        ELSE IsMax(fnLast, Parsed(fnTags))

\* C10: with a supplied commit message pre_build neither invokes the editor
\* nor needs the editor setting and does not fail in the commit-message
\* step; once it has completed, the commit message is the supplied one with
\* the changelog (if any) appended.
C10_SuppliedMessage ==
    ~suppliedMsg.none =>
        /\ editorCalls = 0
        /\ err \notin {"editor_unset", "no_editor_TypeError",
                       "editor_failed", "abort"}
        /\ (Len(phases) >= 2 =>
                \/ commit_message.text = suppliedMsg.text
                \/ \E c \in Changelogs \ {<< >>} :
                      commit_message.text = suppliedMsg.text \o <<"\n">> \o c)

\* variant v of the version being released is in the central directory
InstalledNow(v) ==
    [ ver |-> metadata.version, var |-> v, uuid |-> metadata.uuid ]
        \in installed

\* C11: when the install-path query or the install itself exits non-zero
\* for variant k, that invocation is the last one of the run, the run has
\* failed with the error whose message warns of a partial central
\* installation, variants 0..k-1 are still installed, no variant after k
\* was attempted, the release-time markers are as they were when the run
\* started and create_release_tag was not invoked.
C11_InstallFailureIsPartial ==
    \A i \in DOMAIN cmdLog :
        cmdLog[i].op \in { "query", "install" } /\ cmdLog[i].rc # 0
            => /\ i = Len(cmdLog)
               /\ pc = "failed"
               /\ ErrType(err) = "RezReleaseError"
               /\ InSeq("partial central installation", ErrMessage(err))
               /\ \A v \in 0 .. cmdLog[i].v - 1 : InstalledNow(v) /\ InstallOk(v)
               /\ \A j \in DOMAIN cmdLog :
                      cmdLog[j].op \in { "query", "install" }
                          => cmdLog[j].v <= cmdLog[i].v
               /\ timeWrites = central0.timeWrites
               /\ tagCalls = 0
               /\ (runNo = 1 => vcsTags = << >>)

C11_Witness ==
    /\ err = "install_failed"
    /\ cmdLog # << >>
    /\ Last(cmdLog).op = "query"
    /\ Last(cmdLog).v = 1
    /\ InstalledNow(0)
    /\ ~InstalledNow(1)

\* the variant indices of the invocations of op, in the order they were made
OpSeq(op) ==
    LET sel == SelectSeq(cmdLog, LAMBDA c : c.op = op)
    IN  [ i \in DOMAIN sel |-> sel[i].v ]
\* 0 .. n-1 in index order
UpTo(n) == [ i \in 1 .. n |-> i - 1 ]
\* the number of variants of the package, an empty list counting as one
VariantCount == IF metadata.nvar = 0 THEN 1 ELSE metadata.nvar

\* C12: a run that succeeded with n variants (an empty variant list
\* counting as one) has invoked the build tool exactly n times, for variants
\* 0..n-1 in that order, then the install action exactly n times in the same
\* order, every build before every install; each invocation is logged with
\* its exit status, so it has ended before the next one starts.
C12_VariantOrder ==
    pc = "done" =>
        /\ OpSeq("build") = UpTo(VariantCount)
        /\ OpSeq("install") = UpTo(VariantCount)
        /\ OpSeq("export") = UpTo(VariantCount)
        /\ OpSeq("query") = UpTo(VariantCount)
        /\ \A i \in DOMAIN cmdLog, j \in DOMAIN cmdLog :
               cmdLog[i].op \in { "export", "build" }
                   /\ cmdLog[j].op \in { "query", "install" } => i < j

C12_Witness ==
    /\ pc = "done"
    /\ metadata.nvar = 2
    /\ OpSeq("build") = << 0, 1 >>
    /\ OpSeq("install") = << 0, 1 >>
    /\ Len(cmdLog) = 8

\* C13: the scratch directories of two distinct variants differ and neither
\* contains the other; when a variant is built, nothing older than this
\* run's export of that variant is at or below its scratch directory (a stale
\* directory was removed before the export); and the install-path query and
\* the install of a variant run in exactly the directory where that variant
\* was built, also for the single implicit variant.
C13_ScratchDirs ==
    /\ \A i \in DOMAIN cmdLog, j \in DOMAIN cmdLog :
           /\ cmdLog[i].op \in { "export", "build" }
           /\ cmdLog[j].op \in { "export", "build" }
           /\ cmdLog[i].v # cmdLog[j].v
           => /\ cmdLog[i].dir # cmdLog[j].dir
              /\ ~IsPrefix(cmdLog[i].dir, cmdLog[j].dir)
    /\ \A i \in DOMAIN cmdLog :
           cmdLog[i].op = "build"
           => /\ \E d \in scratch : d.path = cmdLog[i].dir
              /\ \A d \in scratch :
                     IsPrefix(cmdLog[i].dir, d.path)
                         => d.run = runNo /\ d.var = cmdLog[i].v
    /\ \A i \in DOMAIN cmdLog :
           cmdLog[i].op \in { "query", "install" }
           => \E j \in 1 .. i - 1 :
                 /\ cmdLog[j].op = "build"
                 /\ cmdLog[j].v = cmdLog[i].v
                 /\ cmdLog[j].dir = cmdLog[i].dir

C13_Witness ==
    /\ runNo = 2
    /\ firstInstallRun = 1
    /\ metadata.nvar = 2
    /\ cmdLog # << >>
    /\ Last(cmdLog).op = "install"
    /\ Last(cmdLog).v = 1
    /\ Last(cmdLog).dir = << "cwd", "build", "rez-release", "1" >>

\* errors raised by the backend hooks validate_repostate, get_tags (through
\* validate_version), get_tag_meta_str and create_release_tag
HookErrors ==
    { "not_clean", "version_not_greater", "no_version_AttributeError",
      "no_tag_url_AttributeError", "hg_failed", "tag_failed" }
ToolFailed == \E i \in DOMAIN cmdLog : cmdLog[i].rc # 0

\* C14: in a run of the base mode no backend hook raises at any point where
\* the pipeline calls it, and a run that got past pre_build and did not end
\* done was stopped by a failing external tool only.
C14_BaselineNoOp ==
    runNo > 0 /\ mode = "base" =>
        /\ err \notin HookErrors
        /\ ErrType(err) # "AttributeError"
        /\ (pc = "failed" /\ Len(phases) >= 2 => ToolFailed)

\* the names a registry lists, front first
Names(reg) == [ i \in DOMAIN reg |-> reg[i].name ]

\* C15: the registry holds each name at most once and lists names most
\* recently registered first (the three modes registered at import, hg, svn,
\* base, stay at the back in that order and every change of the registry
\* puts one new name at the front); a register call with a name already
\* registered raises and leaves the registry unchanged, as does every
\* register call that raises.
C15_RegistryOrder ==
    /\ [](/\ \A i \in DOMAIN release_classes, j \in DOMAIN release_classes :
                i # j => release_classes[i].name # release_classes[j].name
          /\ Len(release_classes) >= 3
          /\ SubSeq(Names(release_classes), Len(release_classes) - 2,
                    Len(release_classes)) = << "hg", "svn", "base" >>)
    /\ [][/\ (release_classes' # release_classes =>
                /\ regOut'.op = "register"
                /\ regOut'.raised = ""
                /\ ~InSeq(regOut'.name, Names(release_classes))
                /\ Names(release_classes') =
                       << regOut'.name >> \o Names(release_classes))
          /\ (regOut'.op = "register"
                /\ InSeq(regOut'.name, Names(release_classes)) =>
                    /\ regOut'.raised = "AssertionError"
                    /\ release_classes' = release_classes)
          /\ (regOut'.op = "register" /\ regOut'.raised # "" =>
                release_classes' = release_classes)]_vars

C15_Witness ==
    /\ Len(release_classes) = 5
    /\ regOut.op = "register"
    /\ regOut.raised = "AssertionError"
    /\ regOut.name \in CustomNames
    /\ release_classes[2].name = regOut.name

\* a constructor failure other than the unsupported-mode condition
OtherFailure(x) == x \notin { "", "RezReleaseUnsupportedMode" }
FirstOf(S) == CHOOSE i \in S : \A j \in S : i <= j

\* C16: list_available_release_modes(path) returns, in registry order,
\* exactly the names whose class constructs on path, leaving out silently
\* those that raise the unsupported-mode condition; when a constructor
\* raises anything else, the call raises that exception; on a directory
\* with no VCS markers only names of the base class are returned.
C16_ListAvailable ==
    regOut.op = "list" =>
        LET reg == release_classes
            out == [ i \in DOMAIN reg |-> Construct(reg[i].cls, regOut.path) ]
            bad == { i \in DOMAIN reg : OtherFailure(out[i]) }
            ok == { i \in DOMAIN reg : out[i] = "" }
        IN  /\ (bad # {} => regOut.raised = out[FirstOf(bad)])
            /\ (bad = {} =>
                    /\ regOut.raised = ""
                    /\ Len(regOut.modes) = Cardinality(ok)
                    /\ \A i \in ok : InSeq(reg[i].name, regOut.modes)
                    /\ \A a \in DOMAIN regOut.modes, b \in DOMAIN regOut.modes :
                           a < b => \E i \in ok, j \in ok :
                                       /\ i < j
                                       /\ reg[i].name = regOut.modes[a]
                                       /\ reg[j].name = regOut.modes[b])
            /\ (PlainDirectory(regOut.path) /\ reg = RegistryAtImport =>
                    regOut.modes = << "base" >>)

\* C17: for every tag name the tag-creating command "git tag -a" takes
\* effect at most once over any sequence of create_release_tag calls, and a
\* call made when a tag of that name exists only lists the tags: it issues
\* neither "git tag -a" nor a push, raises nothing and leaves the tags and
\* the remote as they were.
C17_TagIdempotent ==
    /\ [](\A n \in GitTagNames : gitRepo.created[n] <= 1)
    /\ [][\A n \in GitTagNames :
              /\ gitOut'.op = "create_release_tag"
              /\ gitOut'.name = n
              /\ \E t \in gitRepo.tags : t.name = n
              => /\ gitCmds' = << "tag" >>
                 /\ gitOut'.raised = ""
                 /\ gitRepo' = gitRepo]_vars

C17_Witness ==
    /\ gitOut.op = "create_release_tag"
    /\ gitOut.name = "1"
    /\ gitCmds = << "tag" >>
    /\ gitRepo.tags = { [ name |-> "1", msg |-> "m" ] }
    /\ gitRepo.created["1"] = 1
    /\ gitRepo.pushed = { "1" }

\* the local checks of validate_repostate pass
LocallyClean ==
    /\ gitRepo.untracked = {}
    /\ ~gitRepo.dirty
    /\ gitSettings.releasable # "no_match"

C19_NoUpstream ==
    gitOut.op = "validate_repostate" =>
        /\ (LocallyClean /\ gitRepo.upstream = "none" =>
                /\ (gitOut.raised # "" <=> ~gitSettings.allow_no_upstream)
                /\ (gitOut.raised # "" => gitOut.raised = "no_upstream")
                /\ ~InSeq("remote update", gitCmds)
                /\ ~InSeq("status --short -b", gitCmds))
        /\ (gitRepo.upstream = "error" => gitOut.raised = "tracking_failed")

C19_Witness ==
    /\ gitOut.op = "validate_repostate"
    /\ gitOut.raised = ""
    /\ gitRepo.upstream = "none"
    /\ gitSettings.allow_no_upstream
    /\ gitSettings.releasable = "match"
    /\ gitCmds # << >>

\* C20: when the upstream resolves, the local checks pass and the fetch
\* succeeded, the tracking ref is level with the remote and
\* validate_repostate raises if and only if the branch is then ahead or
\* behind; the error reports n commits behind when behind by n only and a
\* commits ahead when ahead by a, also when behind as well; at distance zero
\* it passes.
C20_Divergence ==
    /\ gitOut.op = "validate_repostate"
    /\ gitRepo.upstream = "tracking"
    /\ LocallyClean
    /\ gitOut.raised # "fetch_failed"
    => /\ gitRepo.behind = gitRepo.remoteBehind
       /\ (gitOut.raised # "" <=> gitRepo.ahead > 0 \/ gitRepo.behind > 0)
       /\ (gitOut.raised # "" => gitOut.raised = "diverged")
       /\ (gitRepo.ahead > 0 =>
               gitOut.n = gitRepo.ahead /\ gitOut.dir = "ahead of")
       /\ (gitRepo.ahead = 0 /\ gitRepo.behind > 0 =>
               gitOut.n = gitRepo.behind /\ gitOut.dir = "behind")

C20_Witness ==
    /\ gitOut.op = "validate_repostate"
    /\ gitOut.raised = "diverged"
    /\ gitRepo.ahead = 1
    /\ gitRepo.behind = 2
    /\ gitOut.n = 1
    /\ gitOut.dir = "ahead of"

\* C21: in Subversion mode, once validate_version has run: if the tag URL
\* of the version exists, the run has failed in pre_build with the release
\* error for an existing tag, nothing exported or built, whatever
\* allow_not_latest; if it does not exist, the existence check has raised
\* nothing (the run goes on to the monotonicity check).
C21_SvnTagUrlExists ==
    mode = "svn" /\ seen.versionChecked =>
        /\ (seen.tagUrlExists =>
                /\ err = "tag_exists"
                /\ ErrType(err) = "RezReleaseError"
                /\ phases = << "pre_build" >>
                /\ cmdLog = << >>)
        /\ (~seen.tagUrlExists =>
                /\ err # "tag_exists"
                /\ ErrType(err) # "AttributeError")

\* the writes of the release-time marker of version v made by this run
MarkerWritesThisRun(v) == timeWrites[v] - central0.timeWrites[v]

Between(h, prev) == { c \in 1 .. Len(h) : c > prev }
Elems(q) == { q[i] : i \in DOMAIN q }

\* C23: get_changelog returns the log of exactly the commits reachable from
\* HEAD and not from the previous commit (of the whole history when no
\* previous commit is known), merge commits excluded.
C23_ChangelogRange ==
    gitLogOut.op = "get_changelog" /\ gitLogOut.raised = "" =>
        LET prev == IF gitLogOut.prev.none THEN 0 ELSE gitLogOut.prev.commit
        IN  Elems(gitLogOut.out) =
                { c \in Between(gitHistory, prev) : ~gitHistory[c] }

\* C24: whenever create_release_tag returns without error in a working copy
\* with a tracking remote, the tag it was asked for (created by this or by an
\* earlier call) exists locally and on the remote, also when the earlier
\* call created the tag and failed to push it.
C24_TagPushedOnReturn ==
    /\ gitOut.op = "create_release_tag"
    /\ gitOut.raised = ""
    /\ gitRepo.upstream = "tracking"
    /\ gitRepo.created[gitOut.name] >= 1
    => /\ \E t \in gitRepo.tags : t.name = gitOut.name
       /\ gitOut.name \in gitRepo.pushed

\* the versions named under the tags URL, legacy names read as A.B.C, that
\* exceed the baseline (the branch-name version, or 0 on trunk)
SvnBaseline == IF fnSvn.branch # OnTrunk THEN Version(fnSvn.branch)
               ELSE Version(NumStr(<<0>>))
SvnCandidates ==
    { v \in Parsed(svn_tag_names(fnTags)) : VersionGT(v, SvnBaseline) }

\* C25: with an existing tags URL the Subversion last_tagged_version does
\* not raise and is the maximum of the parsable tags above the baseline, none
\* when there is no such tag; and when a tag is greater than or equal to the
\* version being released and allow_not_latest is false, validate_version
\* raises the release error.
C25_SvnLastTagged ==
    /\ fnPc \in { "svn_tagged", "svn_validated" } /\ fnSvn.tagsUrlExists =>
           /\ fnPc = "svn_tagged" => fnErr = ""
           /\ IF SvnCandidates = {} THEN IsNone(fnLast)
              ELSE IsMax(fnLast, SvnCandidates)
    /\ fnPc = "svn_validated" /\ ~fnAllow
           /\ (\E v \in SvnCandidates : VersionLE(fnThis, v)) =>
               /\ fnRaised
               /\ ErrType(fnErr) = "RezReleaseError"

\* C26: a tag created by a run carries the run's final commit message as its
\* log message, in Subversion and in Mercurial with or without a patch
\* queue.
C26_TagLogIsCommitMessage ==
    tagLog.made =>
        /\ ~tagLog.msg.none
        /\ tagLog.msg.text = commit_message.text

\* C27: the temporary commit file exists only while control is inside the
\* commit-message step: however the step is left (message accepted, editor
\* failed, abort or end of input at the prompt, any exception) the file is
\* gone; and a run the operator aborted has failed in pre_build with no tool
\* invoked for any variant and the central directory as the run found it.
C27_TempFileRemoved ==
    /\ tmpf => pc = "edit_commit_message"
    /\ err = "abort" =>
           /\ pc = "failed"
           /\ ErrType(err) = "SystemExit"
           /\ phases = << "pre_build" >>
           /\ cmdLog = << >>
           /\ Central = central0
           /\ postLog = << >>

C27_Witness ==
    /\ pc = "failed"
    /\ err = "abort"
    /\ editorCalls >= 1
    /\ ~tmpf

\* control is in build, install or post_install
PastPreBuild ==
    pc \in { "build", "install", "install_variant", "write_time",
             "send_email", "create_tag" }

\* C28: once pre_build has returned the build time is not 0; a step of
\* pre_build changes it only from 0 to the current time; the steps of build,
\* install and post_install leave build time, commit message, concurrency
\* hint and allow_not_latest as they are; and every invocation of the build
\* tool, for building or for installing, was given that same build time.
C28_BuildTimePinned ==
    /\ [](PastPreBuild \/ pc = "done" => build_time # 0)
    /\ [](\A i \in DOMAIN cmdLog :
              cmdLog[i].op \in { "build", "install" } =>
                  cmdLog[i].t = build_time /\ cmdLog[i].t # 0)
    /\ [][pc = "pre_build_env" /\ build_time' # build_time =>
              build_time = 0 /\ build_time' \in Nows]_vars
    /\ [][PastPreBuild =>
              /\ build_time' = build_time
              /\ commit_message' = commit_message
              /\ njobs' = njobs
              /\ allow_not_latest' = allow_not_latest]_vars

C28_Witness ==
    /\ pc = "done"
    /\ build_time \in Nows
    /\ njobs = 4
    /\ OpSeq("build") = << 0, 1 >>
    /\ OpSeq("install") = << 0, 1 >>
    /\ \A i \in DOMAIN cmdLog : cmdLog[i].t = build_time

\* the rejections validate_repostate makes before it contacts the remote
LocalRejections == { "untracked", "uncommitted", "no_upstream", "branch" }
Before(cmds, a, b) ==
    \A j \in DOMAIN cmds : cmds[j] = b => \E i \in 1 .. j - 1 : cmds[i] = a

\* C29: validate_repostate has run "git remote update" only in a working
\* copy with a tracking remote, without untracked files or uncommitted
\* changes and on a releasable branch, and after the commands of those
\* checks; once the earlier checks have passed, the allow-list check rejects
\* exactly when the list is non-empty and matches no pattern; and a call
\* rejected by a local check has not contacted the remote and leaves the
\* repository, its remote-tracking refs included, as it was.
C29_RemoteAfterLocalChecks ==
    /\ [](gitOut.op = "validate_repostate" =>
            /\ "remote update" \in Elems(gitCmds) =>
                   /\ gitRepo.upstream = "tracking"
                   /\ gitRepo.untracked = {}
                   /\ ~gitRepo.dirty
                   /\ gitSettings.releasable # "no_match"
                   /\ Before(gitCmds, "rev-parse @{u}", "remote update")
                   /\ Before(gitCmds, "ls-files --other", "remote update")
                   /\ Before(gitCmds, "status --porcelain", "remote update")
                   /\ gitSettings.releasable = "match" =>
                          Before(gitCmds, "rev-parse HEAD", "remote update")
            /\ gitOut.raised \in LocalRejections =>
                   "remote update" \notin Elems(gitCmds)
            /\ gitOut.raised \notin
                   { "tracking_failed", "untracked", "uncommitted",
                     "no_upstream" } =>
                   (gitOut.raised = "branch"
                        <=> gitSettings.releasable = "no_match"))
    /\ [][gitOut'.op = "validate_repostate"
              /\ gitOut'.raised \in LocalRejections =>
                  gitRepo' = gitRepo]_vars

C29_Witness ==
    /\ gitOut.op = "validate_repostate"
    /\ gitOut.raised = "branch"
    /\ gitRepo.upstream = "tracking"
    /\ gitRepo.behind < gitRepo.remoteBehind
    /\ "remote update" \notin Elems(gitCmds)

\* C30: whenever the build tool was invoked with the changelog file, for
\* building or for installing, this run assembled a non-empty changelog and
\* the file holds exactly that changelog, whatever earlier runs left in the
\* working directory.
C30_ChangelogOfThisRun ==
    \A i \in DOMAIN cmdLog :
        cmdLog[i].op \in { "build", "install" } /\ cmdLog[i].c =>
            /\ seen.changelog # << >>
            /\ changelog_file = File(seen.changelog)

\* C31: the notification step never ends the run: whatever the recipients
\* setting and the mail server did, the step after send_email is
\* create_release_tag with no error raised, and a run that has written the
\* release-time marker and stopped has invoked create_release_tag.
C31_EmailNeverAborts ==
    /\ [](emailOut.raised = "")
    /\ [](postLog # << >> /\ pc \in { "done", "failed" } =>
              postLog = << "write_time_metafile", "send_email",
                           "create_release_tag" >>)
    /\ [][pc = "send_email" => pc' = "create_tag" /\ err' = ""]_vars

C31_Witness ==
    /\ emailOut.outcome = "error_printed"
    /\ emailOut.recipients = << << "a" >>, << "b" >> >>
    /\ pc \in { "done", "failed" }
    /\ postLog = << "write_time_metafile", "send_email",
                    "create_release_tag" >>

\* the runs that have installed at least one variant centrally
RaceInstallers == { p \in RaceRuns : \E i \in raceFs.installed : i.run = p }

\* C32: of two interleaved runs on a family without central directory at
\* most one writes package.uuid; once the uuid is in the file it never
\* changes; a run that found no uuid file and did not create the family
\* directory itself fails at the directory creation and installs nothing;
\* and two runs whose uuids differ never both install a variant.
C32_UuidRace ==
    /\ [](Cardinality({ p \in RaceRuns : raceProc[p].wrote }) <= 1)
    /\ [][raceFs.uuidFile.exists /\ raceFs.uuidFile.text # << >> =>
              raceFs'.uuidFile = raceFs.uuidFile]_vars
    /\ [](\A p \in RaceRuns :
              /\ raceProc[p].pc \in { "install_variant", "done", "failed" }
              /\ raceProc[p].err \notin { "uuid_mismatch", "build_failed" }
              /\ ~raceProc[p].package_uuid_exists
              /\ ~raceProc[p].madeDir
              => /\ raceProc[p].err = "family_dir_exists"
                 /\ p \notin RaceInstallers)
    /\ [](\A p \in RaceInstallers, q \in RaceInstallers :
              raceProc[p].uuid = raceProc[q].uuid)

====
